---- MODULE Spec2Model ----
(***************************************************************************)
(* Data-access layer of the project tracker (src/app.py): the users,       *)
(* projects, notes and tags tables of project_tracker.db and the functions *)
(* that read and write them.  Every function opens its own connection,     *)
(* runs its statements in one implicit transaction and commits, so each    *)
(* function call is one atomic step of the model.                          *)
(***************************************************************************)
EXTENDS Integers, Sequences, FiniteSets, TLC

VARIABLES users, projects, notes, tags, clock, ret, registered

vars == <<users, projects, notes, tags, clock, ret, registered>>

(***************************************************************************)
(* Bounds of the model.                                                    *)
(***************************************************************************)
MaxProjects == 1
MaxNotes == 2
MaxTags == 6
MaxCount == 2
MaxTime == 1

(***************************************************************************)
(* Python values.  None is Python's None and SQL's NULL.  A str is a       *)
(* sequence of one-character strings, so len() and the regular expressions *)
(* of register_user are computed on it.                                    *)
(***************************************************************************)
None == "None"

\* the result of a call: the function called, its positional arguments, whether
\* it succeeded, the id of the row it returns (0 when it returns no row) and
\* the error message it returns ("" when it returns none)
Result(op, args, ok, id, msg) ==
    [op |-> op, args |-> args, ok |-> ok, id |-> id, msg |-> msg]

Upper == {"A", "B", "C", "D", "E", "F", "G", "H", "I", "J", "K", "L", "M",
          "N", "O", "P", "Q", "R", "S", "T", "U", "V", "W", "X", "Y", "Z"}

Lower == {"a", "b", "c", "d", "e", "f", "g", "h", "i", "j", "k", "l", "m",
          "n", "o", "p", "q", "r", "s", "t", "u", "v", "w", "x", "y", "z"}

Digit == {"0", "1", "2", "3", "4", "5", "6", "7", "8", "9"}

\* re.search(r'[X]', s): some character of s is in the class
Search(class, s) == \E i \in 1..Len(s) : s[i] \in class

\* INTEGER PRIMARY KEY without AUTOINCREMENT: the new rowid is one more than
\* the largest rowid in the table (1 for an empty table)
RECURSIVE MaxId(_)
MaxId(rows) ==
    IF rows = {} THEN 0
    ELSE LET r == CHOOSE x \in rows : TRUE
             m == MaxId(rows \ {r})
         IN  IF r.id > m THEN r.id ELSE m

NextRowId(rows) == MaxId(rows) + 1

(***************************************************************************)
(* Passwords.  hashlib.sha256(...).hexdigest() is modelled as an ideal     *)
(* hash: a digest that is determined by the password alone (no salt        *)
(* argument exists), differs from every plaintext, and collides for no two *)
(* passwords of the bounded input set.                                     *)
(***************************************************************************)
hash_password(password) == <<"sha256", password>>

\* mutant: the stored value compared with the plaintext
verify_password_plaintext(stored_password, provided_password) ==
    stored_password = provided_password

\* mutant: the comparison dropped
verify_password_any(stored_password, provided_password) == TRUE

verify_password(stored_password, provided_password) ==
    stored_password = hash_password(provided_password)

AdminPassword == <<"e", "c", "o", "m", "c", "p", "a", "1", "2", "3">>

PersonalPassword ==
    <<"R", "a", "z", "o", "r", "s", "t", "r", "a", "i", "g", "h", "t", "9", "8", "!">>

Usernames == {"", "admin", "alice", "Alice"}

Passwords ==
    { <<>>,
      <<"A", "b", "1">>,
      <<"a", "b", "c", "d", "e", "f", "g", "1">>,
      <<"A", "B", "C", "D", "E", "F", "G", "1">>,
      <<"A", "b", "c", "d", "e", "f", "g", "h">>,
      <<"P", "a", "s", "s", "w", "0", "r", "d">>,
      <<"S", "e", "c", "r", "e", "t", "4", "2", "!">>,
      AdminPassword }

MIN_PASSWORD_LENGTH == 8

MsgRequired == "Username and password are required"
MsgTooShort == "Password must be at least 8 characters long"
MsgNoClasses ==
    "Password must contain upper and lowercase letters and at least one number"
MsgDuplicate == "Username already exists"
MsgCreateError == "Error creating user"

UserByName(username) == {u \in users : u.username = username}

(***************************************************************************)
(* init_db: the seed rows.                                                 *)
(***************************************************************************)
DefaultTags ==
    << [name |-> "Work", color |-> "#0ea5e9"],
       [name |-> "Personal", color |-> "#f59e0b"],
       [name |-> "Urgent", color |-> "#ef4444"],
       [name |-> "Low Priority", color |-> "#10b981"],
       [name |-> "Research", color |-> "#8b5cf6"] >>

SeedTags(t) ==
    IF t = {}
    THEN {[id |-> i, name |-> DefaultTags[i].name,
           color |-> DefaultTags[i].color, count |-> 0] : i \in 1..Len(DefaultTags)}
    ELSE t

SeedUser(us, username, password) ==
    IF \E u \in us : u.username = username
    THEN us
    ELSE us \cup {[id |-> NextRowId(us), username |-> username,
                   password |-> hash_password(password)]}

SeedUsers(us) == SeedUser(SeedUser(us, "admin", AdminPassword), "jthasty", PersonalPassword)

\* registered is a history variable: every (username, plaintext password, id)
\* for which a users row was inserted, and the function that inserted it
Credential(username, password, id, by) ==
    [username |-> username, password |-> password, id |-> id, by |-> by]

SeedCredentials(us) ==
    {Credential(u.username,
                IF u.username = "admin" THEN AdminPassword ELSE PersonalPassword,
                u.id, "init_db") :
        u \in SeedUsers(us) \ us}

Init ==
    /\ users = SeedUsers({})
    /\ projects = {}
    /\ notes = {}
    /\ tags = SeedTags({})
    /\ clock = 0
    /\ ret = Result("init_db", <<>>, TRUE, 0, "")
    /\ registered = SeedCredentials({})

\* main() calls init_db() on every run of the script
init_db ==
    /\ users' = SeedUsers(users)
    /\ tags' = SeedTags(tags)
    /\ ret' = Result("init_db", <<>>, TRUE, 0, "")
    /\ registered' = registered \cup SeedCredentials(users)
    /\ UNCHANGED <<projects, notes, clock>>

(***************************************************************************)
(* Authentication.                                                         *)
(***************************************************************************)
\* the id of the user authenticate_user returns, 0 when it returns None
AuthResult(username, password) ==
    LET found == UserByName(username)
    IN  IF found # {} /\ verify_password((CHOOSE u \in found : TRUE).password, password)
        THEN (CHOOSE u \in found : TRUE).id
        ELSE 0

authenticate_user(username, password) ==
    LET id == AuthResult(username, password)
    IN  /\ ret' = Result("authenticate_user", <<username, password>>, id # 0, id, "")
        /\ UNCHANGED <<users, projects, notes, tags, clock, registered>>

\* mutant: the lookup of the username left out
RegisterResult_nolookup(username, password) ==
    IF username = "" \/ password = <<>>
    THEN <<FALSE, MsgRequired>>
    ELSE IF Len(password) < MIN_PASSWORD_LENGTH
    THEN <<FALSE, MsgTooShort>>
    ELSE IF ~(Search(Upper, password) /\ Search(Lower, password) /\ Search(Digit, password))
    THEN <<FALSE, MsgNoClasses>>
    ELSE <<TRUE, "">>

\* mutant: the character classes joined by "or" instead of "and"
RegisterResult_anyclass(username, password) ==
    IF username = "" \/ password = <<>>
    THEN <<FALSE, MsgRequired>>
    ELSE IF Len(password) < MIN_PASSWORD_LENGTH
    THEN <<FALSE, MsgTooShort>>
    ELSE IF ~(Search(Upper, password) \/ Search(Lower, password) \/ Search(Digit, password))
    THEN <<FALSE, MsgNoClasses>>
    ELSE IF UserByName(username) # {}
    THEN <<FALSE, MsgDuplicate>>
    ELSE <<TRUE, "">>

\* the outcome of register_user: <<success, error message>>
RegisterResult(username, password) ==
    IF username = "" \/ password = <<>>
    THEN <<FALSE, MsgRequired>>
    ELSE IF Len(password) < MIN_PASSWORD_LENGTH
    THEN <<FALSE, MsgTooShort>>
    ELSE IF ~(Search(Upper, password) /\ Search(Lower, password) /\ Search(Digit, password))
    THEN <<FALSE, MsgNoClasses>>
    ELSE IF UserByName(username) # {}
    THEN <<FALSE, MsgDuplicate>>
    ELSE <<TRUE, "">>

\* users.username is declared UNIQUE: an INSERT of a taken username raises
\* sqlite3.IntegrityError, which register_user catches
UsernameUnique(us, username) == \A u \in us : u.username # username

register_user(username, password) ==
    LET r == RegisterResult(username, password)
        user_id == NextRowId(users)
    IN  /\ UNCHANGED <<projects, notes, tags, clock>>
        /\ IF ~r[1]
           THEN /\ UNCHANGED <<users, registered>>
                /\ ret' = Result("register_user", <<username, password>>, FALSE, 0, r[2])
           ELSE IF ~UsernameUnique(users, username)
           THEN /\ UNCHANGED <<users, registered>>
                /\ ret' = Result("register_user", <<username, password>>, FALSE, 0,
                                 MsgCreateError)
           ELSE /\ users' = users \cup {[id |-> user_id, username |-> username,
                                         password |-> hash_password(password)]}
                /\ registered' = registered \cup {Credential(username, password, user_id,
                                                             "register_user")}
                /\ ret' = Result("register_user", <<username, password>>, TRUE,
                                 user_id, "")

(***************************************************************************)
(* Projects, notes and tags.                                               *)
(***************************************************************************)
\* get_db_connection() never issues PRAGMA foreign_keys = ON, so SQLite keeps
\* its default: the FOREIGN KEY ... ON DELETE CASCADE clause of the notes table
\* is parsed and not enforced
foreign_keys == FALSE

\* A projects row carries id, title, tag_name, completed, created_at and
\* updated_at; description, tag_color and priority are plain columns written
\* exactly like title and are represented by it.  A notes row carries id,
\* project_id and content; its created_at is only read by get_notes' ORDER BY.

Titles == {"Website redesign"}

\* tag names passed to the project functions: NULL, the empty string, a
\* seeded tag and a name no tag row has at first
TagArgs == {None, "", "Work", "Ghost"}

NewTagNames == {"Work", "Ghost"}

NewTagColor == "#64748b"

\* note contents: empty, whitespace only, text
Whitespace == {" ", "\t", "\n"}

Contents == { <<>>, <<" ", "\n">>, <<"h", "i">> }

\* content.strip() == ""
IsBlank(content) == \A i \in 1..Len(content) : content[i] \in Whitespace

ProjectIds == 1..MaxProjects

NoteIds == 1..MaxNotes

Completed == {0, 1}

\* Python truthiness of a tag name: None and '' are false
Truthy(tag_name) == tag_name # None /\ tag_name # ""

ProjectById(project_id) == {p \in projects : p.id = project_id}

NoteById(note_id) == {n \in notes : n.id = note_id}

\* UPDATE tags SET count = count + 1 WHERE name = ?
IncrementTag(t, name) ==
    {IF r.name = name THEN [r EXCEPT !.count = r.count + 1] ELSE r : r \in t}

\* mutant: count - 1 without MAX(0, ...)
DecrementTag_nofloor(t, name) ==
    {IF r.name = name THEN [r EXCEPT !.count = r.count - 1] ELSE r : r \in t}

\* UPDATE tags SET count = MAX(0, count - 1) WHERE name = ?
DecrementTag(t, name) ==
    {IF r.name = name
     THEN [r EXCEPT !.count = IF r.count - 1 > 0 THEN r.count - 1 ELSE 0]
     ELSE r : r \in t}

\* mutant: the timestamp written is the row's created_at
TouchProject_created(ps, project_id, now) ==
    {IF p.id = project_id THEN [p EXCEPT !.updated_at = p.created_at] ELSE p : p \in ps}

\* UPDATE projects SET updated_at = ? WHERE id = ?
TouchProject(ps, project_id, now) ==
    {IF p.id = project_id THEN [p EXCEPT !.updated_at = now] ELSE p : p \in ps}

CountsInBound(t) == \A r \in t : r.count <= MaxCount

\* datetime.now(): the wall clock, which the model only moves forward
Tick ==
    /\ clock < MaxTime
    /\ clock' = clock + 1
    /\ ret' = Result("tick", <<>>, TRUE, 0, "")
    /\ UNCHANGED <<users, registered, projects, notes, tags>>

create_project(title, tag_name) ==
    LET now == clock
        project_id == NextRowId(projects)
        newTags == IF Truthy(tag_name) THEN IncrementTag(tags, tag_name) ELSE tags
    IN  /\ project_id <= MaxProjects
        /\ CountsInBound(newTags)
        /\ projects' = projects \cup
               {[id |-> project_id, title |-> title, tag_name |-> tag_name,
                 completed |-> 0, created_at |-> now, updated_at |-> now]}
        /\ tags' = newTags
        /\ ret' = Result("create_project", <<>>, TRUE, project_id, "")
        /\ UNCHANGED <<users, registered, notes, clock>>

(***************************************************************************)
(* update_project(project_id, **kwargs).  kwargs is a record of the        *)
(* keyword values with the set of keywords actually passed in .keys.       *)
(***************************************************************************)
Keywords == {"title", "tag_name", "completed", "owner"}

RecognizedFields == {"title", "tag_name", "completed"}

\* a keyword that is not passed carries a fixed filler value
Kwargs ==
    {kw \in [keys : SUBSET Keywords, title : Titles, tag_name : TagArgs,
             completed : Completed] :
        /\ "title" \notin kw.keys => kw.title = CHOOSE t \in Titles : TRUE
        /\ "tag_name" \notin kw.keys => kw.tag_name = None
        /\ "completed" \notin kw.keys => kw.completed = 0}

\* kwargs.get('tag_name')
KwargsGetTag(kwargs) == IF "tag_name" \in kwargs.keys THEN kwargs.tag_name ELSE None

\* mutant: the completed keyword is not written
ApplyFields_nocompleted(p, kwargs, now) ==
    LET set == kwargs.keys \cap RecognizedFields
    IN  [p EXCEPT !.title = IF "title" \in set THEN kwargs.title ELSE @,
                  !.tag_name = IF "tag_name" \in set THEN kwargs.tag_name ELSE @,
                  !.updated_at = now]

\* mutant: the UPDATE also writes created_at
ApplyFields_created(p, kwargs, now) ==
    LET set == kwargs.keys \cap RecognizedFields
    IN  [p EXCEPT !.title = IF "title" \in set THEN kwargs.title ELSE @,
                  !.tag_name = IF "tag_name" \in set THEN kwargs.tag_name ELSE @,
                  !.completed = IF "completed" \in set THEN kwargs.completed ELSE @,
                  !.created_at = now,
                  !.updated_at = now]

\* UPDATE projects SET <recognized fields>, updated_at = ? WHERE id = ?
ApplyFields(p, kwargs, now) ==
    LET set == kwargs.keys \cap RecognizedFields
    IN  [p EXCEPT !.title = IF "title" \in set THEN kwargs.title ELSE @,
                  !.tag_name = IF "tag_name" \in set THEN kwargs.tag_name ELSE @,
                  !.completed = IF "completed" \in set THEN kwargs.completed ELSE @,
                  !.updated_at = now]

\* mutant: the old tag is not decremented
UpdateTagCounts_nodecrement(t, old_tag, new_tag) ==
    IF old_tag # new_tag /\ Truthy(new_tag) THEN IncrementTag(t, new_tag) ELSE t

\* the tag counts after update_project's adjustment
UpdateTagCounts(t, old_tag, new_tag) ==
    IF old_tag # new_tag
    THEN LET t1 == IF Truthy(old_tag) THEN DecrementTag(t, old_tag) ELSE t
         IN  IF Truthy(new_tag) THEN IncrementTag(t1, new_tag) ELSE t1
    ELSE t

\* the tag_name update_project reads before it writes (old_tag)
OldTag(project_id) ==
    IF ProjectById(project_id) # {}
    THEN (CHOOSE p \in ProjectById(project_id) : TRUE).tag_name
    ELSE None

\* the effect of update_project on the store
UpdateProject(project_id, kwargs) ==
    LET now == clock
        old_tag == OldTag(project_id)
        new_tag == KwargsGetTag(kwargs)
        newTags == UpdateTagCounts(tags, old_tag, new_tag)
    IN  /\ CountsInBound(newTags)
        /\ projects' = {IF p.id = project_id THEN ApplyFields(p, kwargs, now) ELSE p :
                           p \in projects}
        /\ tags' = newTags
        /\ UNCHANGED <<users, registered, notes, clock>>

\* the result records, after the project id, the old_tag the call read
update_project(project_id, kwargs) ==
    /\ UpdateProject(project_id, kwargs)
    /\ ret' = Result("update_project", <<project_id, OldTag(project_id)>>,
                     ProjectById(project_id) # {},
                     IF ProjectById(project_id) # {} THEN project_id ELSE 0, "")

mark_project_complete(project_id, completed) ==
    /\ UpdateProject(project_id, [keys |-> {"completed"},
                                  title |-> CHOOSE t \in Titles : TRUE,
                                  tag_name |-> None, completed |-> completed])
    /\ ret' = Result("mark_project_complete", <<project_id, completed>>,
                     ProjectById(project_id) # {},
                     IF ProjectById(project_id) # {} THEN project_id ELSE 0, "")

delete_project(project_id) ==
    LET project == ProjectById(project_id)
        tag_name == IF project # {} THEN (CHOOSE p \in project : TRUE).tag_name ELSE None
    IN  /\ projects' = projects \ project
        /\ notes' = IF foreign_keys
                    THEN {n \in notes : n.project_id # project_id}
                    ELSE notes
        /\ tags' = IF project # {} /\ Truthy(tag_name)
                   THEN DecrementTag(tags, tag_name)
                   ELSE tags
        /\ ret' = Result("delete_project", <<project_id>>, TRUE, 0, "")
        /\ UNCHANGED <<users, registered, clock>>

\* notes.project_id REFERENCES projects (id): checked only when foreign keys
\* are enforced
ForeignKeyOk(project_id) == foreign_keys => ProjectById(project_id) # {}

create_note(project_id, content) ==
    LET now == clock
        note_id == NextRowId(notes)
    IN  /\ note_id <= MaxNotes
        /\ UNCHANGED <<users, registered, tags, clock>>
        /\ IF ForeignKeyOk(project_id)
           THEN /\ notes' = notes \cup {[id |-> note_id, project_id |-> project_id,
                                        content |-> content]}
                /\ projects' = TouchProject(projects, project_id, now)
                /\ ret' = Result("create_note", <<project_id>>, TRUE, note_id, "")
           ELSE /\ UNCHANGED <<notes, projects>>
                /\ ret' = Result("create_note", <<project_id>>, FALSE, 0,
                                 "Error creating note")

\* mutant: without the early return, the lookup result is taken for the
\* project id
update_note_noreturn(note_id, content) ==
    LET note == NoteById(note_id)
        now == clock
    IN  /\ UNCHANGED <<users, registered, tags, clock>>
        /\ notes' = {IF n.id = note_id THEN [n EXCEPT !.content = content] ELSE n :
                         n \in notes}
        /\ projects' = TouchProject(projects,
                                    IF note = {} THEN note_id
                                    ELSE (CHOOSE n \in note : TRUE).project_id, now)
        /\ ret' = Result("update_note", <<note_id>>, note # {},
                         IF note = {} THEN 0 ELSE note_id, "")

update_note(note_id, content) ==
    LET note == NoteById(note_id)
        now == clock
    IN  /\ UNCHANGED <<users, registered, tags, clock>>
        /\ IF note = {}
           THEN /\ UNCHANGED <<notes, projects>>
                /\ ret' = Result("update_note", <<note_id>>, FALSE, 0, "")
           ELSE /\ notes' = {IF n.id = note_id THEN [n EXCEPT !.content = content] ELSE n :
                                n \in notes}
                /\ projects' = TouchProject(projects, (CHOOSE n \in note : TRUE).project_id, now)
                /\ ret' = Result("update_note", <<note_id>>, TRUE, note_id, "")

delete_note(note_id) ==
    LET note == NoteById(note_id)
        now == clock
    IN  /\ UNCHANGED <<users, registered, tags, clock>>
        /\ IF note = {}
           THEN /\ UNCHANGED <<notes, projects>>
                /\ ret' = Result("delete_note", <<note_id>>, FALSE, 0, "")
           ELSE /\ notes' = notes \ note
                /\ projects' = TouchProject(projects, (CHOOSE n \in note : TRUE).project_id, now)
                /\ ret' = Result("delete_note", <<note_id>>, TRUE, 0, "")

\* tags.name carries no UNIQUE constraint: the INSERT always succeeds
create_tag(name, color) ==
    LET tag_id == NextRowId(tags)
    IN  /\ tag_id <= MaxTags
        /\ tags' = tags \cup {[id |-> tag_id, name |-> name, color |-> color, count |-> 0]}
        /\ ret' = Result("create_tag", <<>>, TRUE, tag_id, "")
        /\ UNCHANGED <<users, registered, projects, notes, clock>>

(***************************************************************************)
(* Three specifications, one per group of tables.  SpecTags runs the       *)
(* project and tag functions within one second of the clock; SpecNotes     *)
(* runs the note functions on untagged projects while the clock advances;  *)
(* SpecAuth runs the credential functions.                                 *)
(***************************************************************************)
\* the update_project calls of SpecTags: those that pass tag_name, completed,
\* both or nothing
TagKwargs == {kw \in Kwargs : kw.keys \subseteq {"tag_name", "completed"}}

NextTags ==
    \/ \E title \in Titles, tag_name \in TagArgs : create_project(title, tag_name)
    \/ \E project_id \in ProjectIds, kwargs \in TagKwargs :
           update_project(project_id, kwargs)
    \/ \E project_id \in ProjectIds, completed \in Completed :
           mark_project_complete(project_id, completed)
    \/ \E project_id \in ProjectIds : delete_project(project_id)
    \/ \E name \in NewTagNames : create_tag(name, NewTagColor)

SpecTags == Init /\ [][NextTags]_vars

NextNotes ==
    \/ Tick
    \/ \E title \in Titles : create_project(title, None)
    \/ \E project_id \in ProjectIds : delete_project(project_id)
    \/ \E project_id \in ProjectIds, content \in Contents : create_note(project_id, content)
    \/ \E note_id \in NoteIds, content \in Contents : update_note(note_id, content)
    \/ \E note_id \in NoteIds : delete_note(note_id)

SpecNotes == Init /\ [][NextNotes]_vars

\* get_projects(completed) for completed = True / False (1 / 0): the rows
\* with completed = 1, or with completed = 0; ORDER BY only orders them.
\* Without the argument the function returns every row.
Selected(ps, completed) ==
    {p \in ps : p.completed = (IF completed # 0 THEN 1 ELSE 0)}

get_projects(completed) == Selected(projects, completed)

\* projects without tags: timestamps and the completed flag
ProjectKwargs == {kw \in Kwargs : kw.keys \subseteq {"title", "completed", "owner"}}

ProjectContents == {<<"h", "i">>}

NextProjects ==
    \/ Tick
    \/ \E title \in Titles : create_project(title, None)
    \/ \E project_id \in ProjectIds, kwargs \in ProjectKwargs :
           update_project(project_id, kwargs)
    \/ \E project_id \in ProjectIds, completed \in Completed :
           mark_project_complete(project_id, completed)
    \/ \E project_id \in ProjectIds : delete_project(project_id)
    \/ \E project_id \in ProjectIds, content \in ProjectContents :
           create_note(project_id, content)
    \/ \E note_id \in NoteIds, content \in ProjectContents : update_note(note_id, content)
    \/ \E note_id \in NoteIds : delete_note(note_id)

SpecProjects == Init /\ [][NextProjects]_vars

NextAuth ==
    \/ init_db
    \/ \E username \in Usernames, password \in Passwords :
           authenticate_user(username, password)
    \/ \E username \in Usernames, password \in Passwords :
           register_user(username, password)

SpecAuth == Init /\ [][NextAuth]_vars

(***************************************************************************)
(* Storage failures.  Every function runs its INSERT/UPDATE/DELETE         *)
(* statements on one connection, inside the transaction sqlite3 opens      *)
(* before the first of them, and calls conn.commit() after the last.  When *)
(* a statement or the commit raises, the except branch calls conn.close()  *)
(* without a commit.  The ...Writes operators give the tables after each   *)
(* statement of a function, in order.                                      *)
(***************************************************************************)
Store == [projects |-> projects, notes |-> notes, tags |-> tags]

\* mutant: a connection that commits every statement as it runs
conn_close_autocommit(committed, pending) == pending

\* conn.close() with a transaction open: the uncommitted writes are dropped
conn_close(committed, pending) == committed

CreateProjectWrites(title, tag_name) ==
    LET now == clock
        s1 == [Store EXCEPT !.projects = @ \cup
                  {[id |-> NextRowId(projects), title |-> title, tag_name |-> tag_name,
                    completed |-> 0, created_at |-> now, updated_at |-> now]}]
    IN  IF Truthy(tag_name)
        THEN <<s1, [s1 EXCEPT !.tags = IncrementTag(@, tag_name)]>>
        ELSE <<s1>>

UpdateProjectWrites(project_id, kwargs) ==
    LET now == clock
        old_tag == OldTag(project_id)
        new_tag == KwargsGetTag(kwargs)
        s1 == [Store EXCEPT !.projects =
                  {IF p.id = project_id THEN ApplyFields(p, kwargs, now) ELSE p : p \in @}]
        dec == IF old_tag # new_tag /\ Truthy(old_tag)
               THEN <<[s1 EXCEPT !.tags = DecrementTag(@, old_tag)]>>
               ELSE <<>>
        s2 == IF dec = <<>> THEN s1 ELSE dec[1]
        inc == IF old_tag # new_tag /\ Truthy(new_tag)
               THEN <<[s2 EXCEPT !.tags = IncrementTag(@, new_tag)]>>
               ELSE <<>>
    IN  <<s1>> \o dec \o inc

DeleteProjectWrites(project_id) ==
    LET project == ProjectById(project_id)
        tag_name == OldTag(project_id)
        s1 == [Store EXCEPT !.projects = @ \ project,
                            !.notes = IF foreign_keys
                                      THEN {n \in @ : n.project_id # project_id}
                                      ELSE @]
    IN  IF project # {} /\ Truthy(tag_name)
        THEN <<s1, [s1 EXCEPT !.tags = DecrementTag(@, tag_name)]>>
        ELSE <<s1>>

CreateNoteWrites(project_id, content) ==
    LET now == clock
        s1 == [Store EXCEPT !.notes = @ \cup
                  {[id |-> NextRowId(notes), project_id |-> project_id,
                    content |-> content]}]
    IN  <<s1, [s1 EXCEPT !.projects = TouchProject(@, project_id, now)]>>

\* both are empty for a note_id of no note: the function returns before it
\* writes
UpdateNoteWrites(note_id, content) ==
    LET note == NoteById(note_id)
        now == clock
        s1 == [Store EXCEPT !.notes =
                  {IF n.id = note_id THEN [n EXCEPT !.content = content] ELSE n : n \in @}]
    IN  IF note = {} THEN <<>>
        ELSE <<s1, [s1 EXCEPT !.projects =
                       TouchProject(@, (CHOOSE n \in note : TRUE).project_id, now)]>>

DeleteNoteWrites(note_id) ==
    LET note == NoteById(note_id)
        now == clock
        s1 == [Store EXCEPT !.notes = @ \ note]
    IN  IF note = {} THEN <<>>
        ELSE <<s1, [s1 EXCEPT !.projects =
                       TouchProject(@, (CHOOSE n \in note : TRUE).project_id, now)]>>

StoreInBound(s) ==
    /\ \A p \in s.projects : p.id <= MaxProjects
    /\ \A n \in s.notes : n.id <= MaxNotes
    /\ CountsInBound(s.tags)

\* A failure of function op whose statements are writes, before its commit
\* completes: at <= Len(writes) is the statement that raises, and
\* at = Len(writes) + 1 is conn.commit() raising.  The result records how
\* many statements had run and how many the call has.  (A failure of the
\* SELECT that follows the commit finds the whole change committed, as a
\* successful call does.)
Fails(op, writes, at, msg) ==
    LET n == Len(writes)
        pending == IF at = 1 THEN Store ELSE writes[at - 1]
        after == conn_close(Store, pending)
    IN  /\ n > 0
        /\ at \in 1..(n + 1)
        /\ StoreInBound(writes[n])
        /\ projects' = after.projects
        /\ notes' = after.notes
        /\ tags' = after.tags
        /\ ret' = Result(op, <<"failed", at - 1, n>>, FALSE, 0, msg)
        /\ UNCHANGED <<users, registered, clock>>

\* the largest number of statements of one call, plus its commit
FailurePoints == 1..4

create_project_fails(title, tag_name, at) ==
    Fails("create_project", CreateProjectWrites(title, tag_name), at,
          "Error creating project")

update_project_fails(project_id, kwargs, at) ==
    Fails("update_project", UpdateProjectWrites(project_id, kwargs), at,
          "Error updating project")

\* delete_project and delete_note return False
delete_project_fails(project_id, at) ==
    Fails("delete_project", DeleteProjectWrites(project_id), at, "")

create_note_fails(project_id, content, at) ==
    Fails("create_note", CreateNoteWrites(project_id, content), at,
          "Error creating note")

update_note_fails(note_id, content, at) ==
    Fails("update_note", UpdateNoteWrites(note_id, content), at,
          "Error updating note")

delete_note_fails(note_id, at) ==
    Fails("delete_note", DeleteNoteWrites(note_id), at, "")

\* SpecAtomic builds tagged projects and notes and lets every mutation fail
\* at every point
AtomicTagArgs == {None, "Work"}

AtomicContents == { <<"h", "i">> }

AtomicKwargs ==
    {kw \in Kwargs : kw.keys \subseteq {"tag_name", "completed"}
                        /\ kw.tag_name \in AtomicTagArgs}

NextAtomic ==
    \/ Tick
    \/ \E title \in Titles, tag_name \in AtomicTagArgs : create_project(title, tag_name)
    \/ \E project_id \in ProjectIds, content \in AtomicContents :
           create_note(project_id, content)
    \/ \E title \in Titles, tag_name \in AtomicTagArgs, at \in FailurePoints :
           create_project_fails(title, tag_name, at)
    \/ \E project_id \in ProjectIds, kwargs \in AtomicKwargs, at \in FailurePoints :
           update_project_fails(project_id, kwargs, at)
    \/ \E project_id \in ProjectIds, at \in FailurePoints :
           delete_project_fails(project_id, at)
    \/ \E project_id \in ProjectIds, content \in AtomicContents, at \in FailurePoints :
           create_note_fails(project_id, content, at)
    \/ \E note_id \in NoteIds, content \in AtomicContents, at \in FailurePoints :
           update_note_fails(note_id, content, at)
    \/ \E note_id \in NoteIds, at \in FailurePoints : delete_note_fails(note_id, at)

SpecAtomic == Init /\ [][NextAtomic]_vars

(***************************************************************************)
(* Properties of the credential functions (SpecAuth).                      *)
(***************************************************************************)
\* the password policy as the specification words it
WeakPassword(password) ==
    \/ Len(password) < 8
    \/ ~Search(Upper, password)
    \/ ~Search(Lower, password)
    \/ ~Search(Digit, password)

WeakPasswordErrors == {MsgTooShort, MsgNoClasses}

\* the credentials register_user stored
ByRegisterUser == {r \in registered : r.by = "register_user"}

\* C4: once register_user(username, password) has succeeded, authenticating
\* with that username and password succeeds in every later state and yields
\* the id that register_user returned.
C4_RegisterThenAuthenticate ==
    \A r \in ByRegisterUser :
        /\ AuthResult(r.username, r.password) = r.id
        /\ (ret.op = "authenticate_user" /\ ret.args = <<r.username, r.password>>)
               => (ret.ok /\ ret.id = r.id)

C4_Witness ==
    /\ ret.op = "authenticate_user"
    /\ ret.ok
    /\ \E r \in ByRegisterUser : ret.args = <<r.username, r.password>> /\ ret.id = r.id
    /\ Cardinality(ByRegisterUser) >= 2

\* C5: authenticate_user returns None when no user row was ever stored for
\* the username or when the password is not the one stored for it, and the
\* result is the same None in both cases.
C5_AuthenticateRejects ==
    (/\ ret.op = "authenticate_user"
     /\ ~\E r \in registered : r.username = ret.args[1] /\ r.password = ret.args[2])
        => (~ret.ok /\ ret.id = 0 /\ ret.msg = "")

C5_Witness ==
    /\ ret.op = "authenticate_user"
    /\ ~ret.ok
    /\ \E r \in ByRegisterUser :
           ret.args[1] = r.username /\ ret.args[2] # r.password
                                    /\ ~WeakPassword(ret.args[2])

C7_WeakPasswordError ==
    [][\A username \in Usernames, password \in Passwords :
          (WeakPassword(password) /\ register_user(username, password))
              => (users' = users /\ ~ret'.ok /\ ret'.msg \in WeakPasswordErrors)]_vars

\* C7 amended: register_user with a weak password fails and leaves the users
\* table unchanged; the failure is a weak-password message when username and
\* password are both non-empty and "Username and password are required"
\* when either is empty.
C7_WeakPasswordRejected ==
    [][\A username \in Usernames, password \in Passwords :
          (WeakPassword(password) /\ register_user(username, password))
              => /\ users' = users
                 /\ ~ret'.ok
                 /\ ret'.msg = IF username = "" \/ password = <<>>
                               THEN MsgRequired
                               ELSE IF Len(password) < 8 THEN MsgTooShort
                               ELSE MsgNoClasses]_vars

C7_Witness ==
    /\ ret.op = "register_user"
    /\ ~ret.ok
    /\ ret.msg = MsgNoClasses
    /\ Len(ret.args[2]) >= 8

\* C8: the stored credential depends on a per-user salt, so no two users rows
\* hold the same password value, even when both users chose the same password.
C8_SaltedCredentials ==
    \A u, v \in users : u # v => u.password # v.password

(***************************************************************************)
(* Properties of the project and tag functions (SpecTags).                 *)
(***************************************************************************)
\* the number of projects rows whose tag_name is name
Referencing(name) == Cardinality({p \in projects : p.tag_name = name})

\* C1: every tag's count is the number of projects rows that carry its name.
C1_CountMatchesProjects ==
    \A t \in tags : t.count = Referencing(t.name)

\* the tag_name stored for each project id
StoredTags(ps) == {<<p.id, p.tag_name>> : p \in ps}

\* C2: an update_project or mark_project_complete call on an existing project
\* that leaves the stored tag_name of the project as it was changes the count
\* of no tag.
C2_CountsFollowStoredTag ==
    [][\A project_id \in ProjectIds :
          (/\ ProjectById(project_id) # {}
           /\ StoredTags(projects') = StoredTags(projects)
           /\ \/ \E kwargs \in Kwargs : update_project(project_id, kwargs)
              \/ \E completed \in Completed : mark_project_complete(project_id, completed))
              => tags' = tags]_vars

(***************************************************************************)
(* Properties of the note functions (SpecNotes).                           *)
(***************************************************************************)
\* C3: delete_project(id) of an existing project leaves no note of that
\* project behind.
C3_DeleteRemovesNotes ==
    [][\A project_id \in ProjectIds :
          (ProjectById(project_id) # {} /\ delete_project(project_id))
              => \A n \in notes' : n.project_id # project_id]_vars

\* C9: every note create_note inserts belongs to a project that exists at
\* the time of the call, and a call for an id of no project inserts nothing.
C9_NoteReferencesProject ==
    [][\A project_id \in ProjectIds, content \in Contents :
          create_note(project_id, content)
              => /\ \A n \in notes' \ notes : ProjectById(n.project_id) # {}
                 /\ ProjectById(project_id) = {} => notes' = notes]_vars

\* C10: create_note on an existing project with content that is empty or
\* whitespace only fails, inserts no note and leaves the updated_at of the
\* project as it was.
C10_BlankContentRejected ==
    [][\A project_id \in ProjectIds, content \in Contents :
          (/\ ProjectById(project_id) # {}
           /\ IsBlank(content)
           /\ create_note(project_id, content))
              => (~ret'.ok /\ notes' = notes /\ projects' = projects)]_vars

\* C11: no two tags rows carry the same name (create_tag refuses a name that
\* is taken).
C11_UniqueTagNames ==
    \A t, u \in tags : t.name = u.name => t = u

\* the names of the tags rows
TagNames == {t.name : t \in tags}

\* the tags row of the next state that has the id of t
SameTag(t) == CHOOSE u \in tags' : u.id = t.id

\* C12: update_project(id, tag_name=B) on an existing project tagged A (p is
\* its row before the call, q its row after), where A and B are distinct
\* names of tags rows, lowers the count of every row
\* named A by one but not below 0, raises the count of every row named B by
\* one and leaves every other tags row as it was.
C12_RetagMovesOneCount ==
    [][\A p \in projects, q \in projects' :
          (/\ ret'.op = "update_project"
           /\ ret'.ok
           /\ p.id = ret'.id
           /\ q.id = ret'.id
           /\ p.tag_name \in TagNames
           /\ q.tag_name \in TagNames
           /\ p.tag_name # q.tag_name)
              => LET A == p.tag_name
                     B == q.tag_name
                 IN  /\ {u.id : u \in tags'} = {t.id : t \in tags}
                     /\ \A t \in tags :
                            SameTag(t) =
                                [t EXCEPT !.count =
                                    IF t.name = A
                                    THEN (IF t.count - 1 > 0 THEN t.count - 1 ELSE 0)
                                    ELSE IF t.name = B THEN t.count + 1
                                    ELSE t.count]]_vars

\* a project was moved from Work to Ghost while the count of Work was
\* already 0: Work stays at 0, Ghost is counted
C12_Witness ==
    /\ ret.op = "update_project"
    /\ ret.ok
    /\ ret.args[2] = "Work"
    /\ \E p \in projects : p.id = ret.id /\ p.tag_name = "Ghost"
    /\ \E t \in tags : t.name = "Ghost" /\ t.count = 1
    /\ \A t \in tags : t.name = "Work" => t.count = 0
    /\ Cardinality(projects) = 1

ProjectOps == {"create_project", "update_project", "mark_project_complete",
               "delete_project"}

\* the tags rows without their counts
TagRows(t) == {[id |-> r.id, name |-> r.name, color |-> r.color] : r \in t}

\* C13: no count is ever negative; no project function inserts or removes a
\* tags row; and tags is left as it was by a create_project whose tag_name
\* names no tags row, by a delete_project of a project whose tag_name names
\* no tags row, and by an update whose old and new tag_name name no tags row.
C13_CountsFlooredUnknownIgnored ==
    /\ [](\A t \in tags : t.count >= 0)
    /\ [][ret'.op \in ProjectOps =>
            /\ TagRows(tags') = TagRows(tags)
            /\ (ret'.op = "create_project"
                  /\ \A q \in projects' : q.id = ret'.id => q.tag_name \notin TagNames)
                   => tags' = tags
            /\ (ret'.op = "delete_project"
                  /\ \A p \in ProjectById(ret'.args[1]) : p.tag_name \notin TagNames)
                   => tags' = tags
            /\ (ret'.op \in {"update_project", "mark_project_complete"}
                  /\ ret'.ok
                  /\ \A p \in ProjectById(ret'.id) : p.tag_name \notin TagNames
                  /\ \A q \in projects' : q.id = ret'.id => q.tag_name \notin TagNames)
                   => tags' = tags
            /\ (ret'.op = "update_project" /\ ~ret'.ok /\ tags' # tags)
                   => \A kwargs \in Kwargs :
                          update_project(ret'.args[1], kwargs)
                              => KwargsGetTag(kwargs) \in TagNames]_vars

\* a project was created with the tag name Ghost while no tags row has that
\* name: the project carries the name and nothing is counted
C13_Witness ==
    /\ ret.op = "create_project"
    /\ \E p \in projects : p.id = ret.id /\ p.tag_name = "Ghost"
    /\ "Ghost" \notin TagNames
    /\ \A t \in tags : t.count = 0

(***************************************************************************)
(* Atomicity (SpecAtomic).                                                 *)
(***************************************************************************)
\* the step is a call that failed before its commit completed
FailedBeforeCommit == Len(ret'.args) = 3 /\ ret'.args[1] = "failed"

\* C14: a mutation that fails before its commit completes, after any number
\* of its statements, leaves projects, notes and tags exactly as they were.
C14_FailedMutationLeavesNothing ==
    [][FailedBeforeCommit => (projects' = projects /\ notes' = notes /\ tags' = tags)]_vars

\* create_note failed after its INSERT and before its UPDATE of the project,
\* on a project that exists and would have been touched
C14_Witness ==
    /\ ret.op = "create_note"
    /\ Len(ret.args) = 3
    /\ ret.args = <<"failed", 1, 2>>
    /\ clock = 1
    /\ \E p \in projects : p.updated_at = 0 /\ p.tag_name = "Work"
    /\ notes = {}

(***************************************************************************)
(* Timestamps (SpecNotes, SpecProjects).                                   *)
(***************************************************************************)
NoteOps == {"create_note", "update_note", "delete_note"}

\* the project id a note call touches: the argument of create_note, the
\* project_id of the note for update_note and delete_note (0 for no note)
ParentOf(r) ==
    IF r.op = "create_note" THEN r.args[1]
    ELSE IF NoteById(r.args[1]) # {}
    THEN (CHOOSE n \in NoteById(r.args[1]) : TRUE).project_id
    ELSE 0

\* C15: a note call lowers no project's updated_at, and a successful one
\* sets the updated_at of its parent project to the time of the call, which
\* is not before the previous value; nothing else of any project changes.
C15_NoteTouchesParent ==
    [][ret'.op \in NoteOps =>
          /\ {q.id : q \in projects'} = {p.id : p \in projects}
          /\ \A p \in projects, q \in projects' :
                 p.id = q.id =>
                     /\ q.updated_at >= p.updated_at
                     /\ q = [p EXCEPT !.updated_at = q.updated_at]
                     /\ (ret'.ok /\ p.id = ParentOf(ret'))
                            => q.updated_at = clock]_vars

\* update_note touched a project created at an earlier second
C15_Witness ==
    /\ ret.op = "update_note"
    /\ ret.ok
    /\ \E n \in notes, p \in projects :
           /\ n.id = ret.id
           /\ n.project_id = p.id
           /\ p.created_at = 0
           /\ p.updated_at = 1

\* C16: every project has updated_at >= created_at; create_project stores
\* the same instant in both, and no call changes the created_at of a project
\* that is already stored.
C16_CreatedAtFixed ==
    /\ [](\A p \in projects : p.updated_at >= p.created_at)
    /\ [][/\ \A p \in projects, q \in projects' :
                 p.id = q.id => q.created_at = p.created_at
          /\ ret'.op = "create_project" =>
                 \E q \in projects' \ projects :
                     /\ q.id = ret'.id
                     /\ q.created_at = clock
                     /\ q.updated_at = clock]_vars

\* update_project rewrote a project one second after it was created
C16_Witness ==
    /\ ret.op = "update_project"
    /\ ret.ok
    /\ clock = 1
    /\ \E p \in projects :
           /\ p.id = ret.id
           /\ p.created_at = 0
           /\ p.updated_at = 1

(***************************************************************************)
(* Active and completed projects (SpecProjects).                           *)
(***************************************************************************)
FlagSet(p) == p.completed # 0

\* the two lists split the projects by the flag
ListsSplitProjects ==
    /\ get_projects(1) = {p \in projects : FlagSet(p)}
    /\ get_projects(0) = {p \in projects : ~FlagSet(p)}
    /\ get_projects(1) \cup get_projects(0) = projects
    /\ get_projects(1) \cap get_projects(0) = {}

\* a new project is active; mark_project_complete on an existing project
\* puts it in the list the argument names and in that list only
MarkMovesProject ==
    /\ ret'.op = "create_project" =>
           \E q \in projects' \ projects : q.id = ret'.id /\ q \in get_projects(0)'
    /\ (ret'.op = "mark_project_complete" /\ ret'.ok) =>
           \E q \in projects' :
               /\ q.id = ret'.id
               /\ q \in Selected(projects', ret'.args[2])
               /\ q \notin Selected(projects', 1 - ret'.args[2])

\* the stored projects that were in the completed list and are not after
\* the step
LeftCompleted ==
    {p \in get_projects(1) :
        \E q \in projects' : q.id = p.id /\ q \notin get_projects(1)'}

\* C17 as stated: the lists split the projects by the flag, a new project is
\* active, mark_project_complete(id, True) moves an existing project to the
\* completed list, and a stored project leaves the completed list only by
\* mark_project_complete(id, False).
C17_OnlyMarkReopens ==
    /\ []ListsSplitProjects
    /\ [][/\ MarkMovesProject
          /\ \A p \in LeftCompleted :
                 /\ ret'.op = "mark_project_complete"
                 /\ ret'.args = <<p.id, 0>>]_vars

\* C17 (amended): as above, but a stored project leaves the completed list
\* by mark_project_complete(id, False) or by an update_project(id, ...) call,
\* which is the call mark_project_complete makes; no other call moves it.
C17_ActiveOrCompleted ==
    /\ []ListsSplitProjects
    /\ [][/\ MarkMovesProject
          /\ \A p \in LeftCompleted :
                 \/ ret'.op = "mark_project_complete" /\ ret'.args = <<p.id, 0>>
                 \/ ret'.op = "update_project" /\ ret'.id = p.id]_vars

\* mark_project_complete(id, True) has put an existing project in the
\* completed list
C17_Witness ==
    /\ ret.op = "mark_project_complete"
    /\ ret.ok
    /\ ret.args[2] = 1
    /\ \E p \in get_projects(1) : p.id = ret.id
    /\ get_projects(0) = {}

(***************************************************************************)
(* Calls on rows that do not exist.                                        *)
(***************************************************************************)
\* C18: update_note with a note_id that matches no note returns None and
\* changes nothing: no note, no project (so no updated_at) and no tag.
C18_UpdateMissingNote ==
    [][(ret'.op = "update_note" /\ NoteById(ret'.args[1]) = {}) =>
           /\ ~ret'.ok
           /\ ret'.id = 0
           /\ notes' = notes
           /\ projects' = projects
           /\ tags' = tags
           /\ users' = users]_vars

\* update_note missed while a note and an older project with its own id
\* were stored
C18_Witness ==
    /\ ret.op = "update_note"
    /\ ~ret.ok
    /\ NoteById(ret.args[1]) = {}
    /\ notes # {}
    /\ \E p \in projects : p.id = ret.args[1] /\ p.updated_at < clock

\* C19: update_project with an id that matches no project returns None and
\* leaves the whole store unchanged, tag counts included.
C19_UpdateMissingProject ==
    [][(ret'.op = "update_project" /\ ProjectById(ret'.args[1]) = {}) =>
           /\ ~ret'.ok
           /\ ret'.id = 0
           /\ projects' = projects
           /\ notes' = notes
           /\ tags' = tags
           /\ users' = users]_vars

====
